---- MODULE Spec2Model ----
(***************************************************************************)
(* Grid automation of the MMT010 portal (src/src/mmt010_automation.py).    *)
(*                                                                         *)
(* The model follows MMT010Automation: the page is the environment (its    *)
(* answer to every driver call is a nondeterministic choice made at the    *)
(* step that issues the call), the object's fields and the locals of the   *)
(* running coroutine are the state, and pc is the coroutine's position.    *)
(* Field names are the ASCII names of the record's fields:                 *)
(*   part_number = 料號, station = 站位, version = 版本,                    *)
(*   description = 描述, manufacturing_group = MFGID群組.                   *)
(***************************************************************************)
EXTENDS Integers, Sequences, FiniteSets, TLC

(* ---------------------------------------------------------------------- *)
(* Bounds                                                                  *)
(* ---------------------------------------------------------------------- *)
MaxRows == 2        \* data rows the grid renders at most
MaxBatch == 3       \* longest list handed to batch_add_test_data
MaxCells == 7       \* cells a grid row or the header row has at most
MaxViewRows == 11   \* data rows of the grids that only view is run on
MaxStrLen == 5      \* longest field value handed to TestData

(* ---------------------------------------------------------------------- *)
(* Program constants                                                       *)
(* ---------------------------------------------------------------------- *)
NumAddSelectors == 4    \* add_button_selectors has four entries

Fields == {"part_number", "station", "version", "description", "manufacturing_group"}

\* config.WebConfig.column_mapping default: field name -> column index
DefaultColumnMapping ==
  [f \in Fields |->
     CASE f = "part_number" -> 1
       [] f = "station" -> 2
       [] f = "version" -> 3
       [] f = "description" -> 4
       [] f = "manufacturing_group" -> 5]

\* the mapping is configuration: any sub-mapping of the default one
ColumnMappings == { [f \in S |-> DefaultColumnMapping[f]] : S \in SUBSET Fields }

\* TestData objects, told apart by identity
Records == 1..MaxBatch

\* the lists batch_add_test_data may receive (the empty list included):
\* n distinct records
BatchLists == { [i \in 1..n |-> i] : n \in 0..MaxBatch }

\* row identifiers handed to find_grid_row / edit_test_data (int ordinals)
Ordinals == (0 - 1)..(MaxRows + 1)

None == 0   \* find_grid_row's None; rows are numbered 1..nRows

\* row identifiers that are strings (the text a row must contain)
TextIds == {"ABC"}

(* ---------------------------------------------------------------------- *)
(* Pure helpers                                                            *)
(* ---------------------------------------------------------------------- *)

\* TestData.to_dict: the five main fields, in insertion order
to_dict_swapped(td) ==
  << [name |-> "station", value |-> <<td, "station">>],
     [name |-> "part_number", value |-> <<td, "part_number">>],
     [name |-> "version", value |-> <<td, "version">>],
     [name |-> "description", value |-> <<td, "description">>],
     [name |-> "manufacturing_group", value |-> <<td, "manufacturing_group">>] >>

to_dict(td) ==
  << [name |-> "part_number", value |-> <<td, "part_number">>],
     [name |-> "station", value |-> <<td, "station">>],
     [name |-> "version", value |-> <<td, "version">>],
     [name |-> "description", value |-> <<td, "description">>],
     [name |-> "manufacturing_group", value |-> <<td, "manufacturing_group">>] >>

\* the canonical field order of the record mapper
CanonicalOrder ==
  << "part_number", "station", "version", "description", "manufacturing_group" >>

\* len(data_dict): the denominator of success_rate in add/edit
RateDenominator_attempted(td, attempted) == attempted

RateDenominator(td, attempted) == Len(to_dict(td))

\* a / b of two small non-negative ints, kept exact as the pair <<a, b>>;
\* b = 0 is Python's ZeroDivisionError
Divide(a, b) ==
  IF b = 0 THEN [fault |-> "ZeroDivisionError", value |-> <<0, 1>>]
  ELSE [fault |-> "none", value |-> <<a, b>>]

\* rate >= 0.8.  For 0 <= a <= b <= 5 the double a / b compares with the
\* literal 0.8 as the exact quotient does (4 / 5 rounds to the same double
\* as 0.8), so the comparison is the cross-multiplied one.
GE80_strict(rate) == rate[1] * 10 > 8 * rate[2]

GE80(rate) == rate[1] * 10 >= 8 * rate[2]

\* two exact rates are the same number
RateEq(r, s) == r[1] * s[2] = s[1] * r[2]

\* Locator.nth(k).count() > 0 on a collection of n elements: the element's
\* position (1-based), or None.  Playwright takes list.slice(k, k + 1), with
\* k = -1 meaning the last element, so a negative k counts from the end and
\* an index past either end selects nothing.
Nth_clamped(n, k) ==
  IF n = 0 THEN None
  ELSE IF k >= n THEN n
  ELSE IF k >= 0 THEN k + 1
  ELSE IF n + k >= 0 THEN n + k + 1 ELSE None

Nth(n, k) ==
  IF k >= 0 THEN (IF k < n THEN k + 1 ELSE None)
  ELSE (IF n + k >= 0 THEN n + k + 1 ELSE None)

(* ---------------------------------------------------------------------- *)
(* State                                                                   *)
(* ---------------------------------------------------------------------- *)
VARIABLES
  column_mapping,   \* self.column_mapping
  nRows,            \* page: number of rendered data rows (self.data_rows)
  pc,               \* position of the running coroutine
  op,               \* the operation the caller started
  caller,           \* who called add_new_test_data: "top" or "batch"
  test_data,        \* the TestData argument of add/edit (0: none)
  row_identifier,   \* the row_identifier argument of find/edit
  row_locator,      \* last_row / row_locator: the target row, or None
  fieldIdx,         \* fields of data_dict.items() already iterated
  success_count,    \* success_count of add/edit
  calls,            \* fill_single_cell invocations of the running add/edit
  ui,               \* page-level UI actions issued by the running operation
  cellUi,           \* UI actions issued by the latest fill_single_cell
  rate,             \* success_rate of add/edit, <<num, den>>; <<0, 0>> unset
  ret,              \* value returned by add/edit (read once the call returned)
  fault,            \* fault of the code's own arithmetic in the operation
  test_data_list,   \* argument of batch_add_test_data
  bi,               \* i of the enumerate loop (1-based), 0 before it
  b_success_count,  \* batch success_count
  b_failed_count,   \* batch failed_count
  results,          \* batch results list
  blog,             \* batch event log: create begin/end and delays
  batch_result,     \* value returned by batch_add_test_data
  row_text,         \* row_identifier when it is a str ("" when it is an int)
  matched,          \* rows the has_text filter matched at the last lookup
  cellField,        \* column_name of the latest fill_single_cell
  cellAns,          \* what the page answered to the latest fill_single_cell
  cellRet,          \* value returned by the latest fill_single_cell
  grid_seen,        \* the last answer to wait_for_grid_ready
  ready_checks,     \* wait_for_grid_ready calls of the running operation
  waits,            \* waits and count() queries issued, with outcome
  view_result,      \* value returned by view_test_data
  raised,           \* an exception left the operation for its caller
  record_in,        \* TestData(...): the field values handed to the constructor
  record_out,       \* the constructed TestData, or the rejection
  automation,       \* MT151App.automation is set (not None)
  browser,          \* MT151App.browser_manager has a browser_info
  connect,          \* start_browser_and_connect: its position, then its outcome
  menu              \* what the last grid-operation menu choice did

vars == << column_mapping, nRows, pc, op, caller, test_data, row_identifier,
           row_locator, fieldIdx, success_count, calls, ui, cellUi, rate, ret,
           fault, test_data_list, bi, b_success_count, b_failed_count,
           results, blog, batch_result, row_text, matched, cellField, cellAns,
           cellRet, grid_seen, ready_checks, waits, view_result, raised,
           record_in, record_out, automation, browser, connect, menu >>

recVars == << record_in, record_out >>
appVars == << automation, browser, connect, menu >>
outerVars == << record_in, record_out, automation, browser, connect, menu >>
cellVars == << cellField, cellAns, cellRet >>
gridVars == << grid_seen, ready_checks >>
lookupVars == << row_text, matched >>

pageVars == << column_mapping, nRows >>
batchVars == << test_data_list, bi, b_success_count, b_failed_count, results,
                blog, batch_result >>

NoBatchResult == [kind |-> "none"]
NoViewResult == [kind |-> "none"]
NoAnswers == [cell |-> "unasked"]
NoRecord == [status |-> "none"]
NoMenu == [entry |-> "none", outcome |-> "none"]

\* no record is being constructed
InitRecordIdle ==
  /\ record_in = NoRecord
  /\ record_out = NoRecord

\* MT151App.__init__ (main.py lines 37-40): no browser, no automation object
InitApp ==
  /\ automation = FALSE
  /\ browser = FALSE
  /\ connect = "none"
  /\ menu = NoMenu

Init ==
  /\ column_mapping \in ColumnMappings
  /\ nRows \in 0..MaxRows
  /\ pc = "idle"
  /\ op = "none"
  /\ caller = "top"
  /\ test_data = 0
  /\ row_identifier = 0
  /\ row_locator = None
  /\ fieldIdx = 0
  /\ success_count = 0
  /\ calls = << >>
  /\ ui = << >>
  /\ cellUi = << >>
  /\ rate = <<0, 0>>
  /\ ret = FALSE
  /\ fault = "none"
  /\ test_data_list = << >>
  /\ bi = 0
  /\ b_success_count = 0
  /\ b_failed_count = 0
  /\ results = << >>
  /\ blog = << >>
  /\ batch_result = NoBatchResult
  /\ row_text = ""
  /\ matched = {}
  /\ cellField = ""
  /\ cellAns = NoAnswers
  /\ cellRet = FALSE
  /\ grid_seen = "unasked"
  /\ ready_checks = 0
  /\ waits = << >>
  /\ view_result = NoViewResult
  /\ raised = FALSE
  /\ InitRecordIdle
  /\ InitApp

\* the locals of an operation at the entry of a call; the row identifier is
\* the int rid, or the str txt when txt is not ""
EnterCallWith(td, rid, txt) ==
  /\ test_data' = td
  /\ row_identifier' = rid
  /\ row_text' = txt
  /\ matched' = {}
  /\ cellField' = ""
  /\ cellAns' = NoAnswers
  /\ cellRet' = FALSE
  /\ grid_seen' = "unasked"
  /\ ready_checks' = 0
  /\ waits' = << >>
  /\ view_result' = NoViewResult
  /\ raised' = FALSE
  /\ row_locator' = None
  /\ fieldIdx' = 0
  /\ success_count' = 0
  /\ calls' = << >>
  /\ ui' = << >>
  /\ cellUi' = << >>
  /\ rate' = <<0, 0>>
  /\ ret' = FALSE
  /\ fault' = "none"

EnterCall(td, rid) == EnterCallWith(td, rid, "")

ResetBatch ==
  /\ test_data_list' = << >>
  /\ bi' = 0
  /\ b_success_count' = 0
  /\ b_failed_count' = 0
  /\ results' = << >>
  /\ blog' = << >>
  /\ batch_result' = NoBatchResult

CanStart == pc \in {"idle", "done"}

(* ---------------------------------------------------------------------- *)
(* Driver answers: what the page does at each call the code makes          *)
(* ---------------------------------------------------------------------- *)
OkRaise == {"ok", "raise"}
GridAnswers == {"visible", "timeout"}

\* the answers to the driver calls of one fill_single_cell:
\*   cell      cell_locator.count(): "none", "one" or "raise"
\*   dblclick  cell_locator.dblclick()
\*   editor    input_editor.wait_for(state='visible'): "visible" or "timeout"
\*   body      page.locator('body').click()
\*   fill      input_editor.fill(value)
\*   press     input_editor.press('Enter'); "ignored": the key event is
\*             delivered but the grid does not take the value
Answers(c, k, e, b, f, p) ==
  [cell |-> c, dblclick |-> k, editor |-> e, body |-> b, fill |-> f, press |-> p]

\* one script for every path through fill_single_cell (an answer the path
\* never asks for is left at "ok" / "visible")
DriverCell ==
  { Answers("raise", "ok", "visible", "ok", "ok", "ok"),
    Answers("none", "ok", "visible", "ok", "ok", "ok"),
    Answers("one", "raise", "visible", "ok", "ok", "ok"),
    Answers("one", "ok", "timeout", "ok", "ok", "ok"),
    Answers("one", "ok", "timeout", "raise", "ok", "ok"),
    Answers("one", "ok", "visible", "ok", "raise", "ok"),
    Answers("one", "ok", "visible", "ok", "ok", "raise"),
    Answers("one", "ok", "visible", "ok", "ok", "ignored"),
    Answers("one", "ok", "visible", "ok", "ok", "ok") }

Min(S) == CHOOSE x \in S : \A y \in S : x <= y
Max(S) == CHOOSE x \in S : \A y \in S : x >= y

(* ---------------------------------------------------------------------- *)
(* wait_for_grid_ready, find_grid_row, fill_single_cell                    *)
(* ---------------------------------------------------------------------- *)

\* wait_for_grid_ready: TRUE iff the container became visible in time; the
\* timeout is caught inside and turned into False
wait_for_grid_ready_ignored(g) == TRUE

wait_for_grid_ready(g) == g = "visible"

\* find_grid_row with an int row_identifier, on a grid of n rows: the row
\* or None (a driver error is caught and gives None)
find_grid_row(rid, n, g, cnt) ==
  IF ~wait_for_grid_ready(g) THEN None
  ELSE IF cnt = "raise" THEN None
  ELSE Nth(n, rid - 1)

\* data_rows.filter(has_text=...).first: the first, in rendered order, of
\* the rows m that the filter matches
FilterFirst_last(m) == IF m = {} THEN None ELSE Max(m)

FilterFirst(m) == IF m = {} THEN None ELSE Min(m)

\* find_grid_row with a str row_identifier; m is the set of rows whose text
\* the driver finds to contain it
find_grid_row_text(m, g, cnt) ==
  IF ~wait_for_grid_ready(g) THEN None
  ELSE IF cnt = "raise" THEN None
  ELSE FilterFirst(m)

\* the choices of m a lookup leaves to the page
MatchSets == IF row_text = "" THEN {{}} ELSE SUBSET (1..nRows)

\* find_grid_row(row_identifier) of the running operation
ResolveRow(m, g, cnt) ==
  IF row_text = "" THEN find_grid_row(row_identifier, nRows, g, cnt)
  ELSE find_grid_row_text(m, g, cnt)

\* "if not row_locator" in edit and delete (lines 361, 406)
NotFound_never(f) == FALSE

NotFound(f) == f = None

\* what the filter matched, when the lookup got as far as asking
MatchedBy(m, g, cnt) ==
  IF row_text # "" /\ wait_for_grid_ready(g) /\ cnt = "ok" THEN m ELSE {}

\* lines 265-271: the editor did not show up: click the page body to leave
\* the edit state, then give up
EditorMissing_no_recovery ==
  [ret |-> FALSE, ui |-> <<"locate", "dblclick">>]

EditorMissing ==
  [ret |-> FALSE, ui |-> <<"locate", "dblclick", "body_click">>]

\* lines 251-285: fill_single_cell once the column index is known.  The
\* result is the value returned and the driver calls issued on the cell, in
\* order ("locate" is cell_locator.count()).  Whatever a driver call raises
\* is caught by the handler of lines 283-285 (the body click of the bare
\* except included): the call always returns a boolean.
CellPath(d) ==
  IF d.cell = "raise"
    THEN [ret |-> FALSE, ui |-> <<"locate">>]
  ELSE IF d.cell = "none"
    THEN [ret |-> FALSE, ui |-> <<"locate">>]
  ELSE IF d.dblclick = "raise"
    THEN [ret |-> FALSE, ui |-> <<"locate", "dblclick">>]
  ELSE IF d.editor = "timeout"
    THEN EditorMissing
  ELSE IF d.fill = "raise"
    THEN [ret |-> FALSE, ui |-> <<"locate", "dblclick", "fill">>]
  ELSE IF d.press = "raise"
    THEN [ret |-> FALSE, ui |-> <<"locate", "dblclick", "fill", "press_enter">>]
  ELSE [ret |-> TRUE, ui |-> <<"locate", "dblclick", "fill", "press_enter">>]

\* fill_single_cell(row_locator, column_name, value) under the answers d:
\* an unknown column is turned down before anything is asked of the page
fill_single_cell_unchecked(row, column_name, value, d) == CellPath(d)

fill_single_cell(row, column_name, value, d) ==
  IF column_name \notin DOMAIN column_mapping
    THEN [ret |-> FALSE, ui |-> << >>]
  ELSE CellPath(d)

(* ---------------------------------------------------------------------- *)
(* add_new_test_data                                                       *)
(* ---------------------------------------------------------------------- *)

\* return from add_new_test_data to whoever called it
AddReturn(val, flt) ==
  /\ ret' = val
  /\ fault' = flt
  /\ pc' = IF caller = "batch" THEN "batch_record" ELSE "done"

\* lines 351-353: the handler of add_new_test_data turns any exception into
\* the return value False
AddExcept_reraise == [ret |-> FALSE, raised |-> TRUE]

AddExcept == [ret |-> FALSE, raised |-> FALSE]

\* an exception raised in the body of add_new_test_data
AddRaise(flt) ==
  /\ AddReturn(AddExcept.ret, flt)
  /\ raised' = AddExcept.raised

StartAdd ==
  /\ CanStart
  /\ EnterCall(1, 0)
  /\ ResetBatch
  /\ op' = "create"
  /\ caller' = "top"
  /\ pc' = "add_ready"
  /\ UNCHANGED << outerVars, pageVars >>

\* lines 292-294: the readiness check
AddReady ==
  /\ pc = "add_ready"
  /\ \E g \in GridAnswers :
       /\ grid_seen' = g
       /\ ready_checks' = ready_checks + 1
       /\ IF wait_for_grid_ready(g)
            THEN /\ pc' = "add_button"
                 /\ UNCHANGED << ret, fault >>
            ELSE AddReturn(FALSE, fault)
  /\ UNCHANGED << outerVars, pageVars, op, caller, test_data, row_identifier, row_locator,
                  fieldIdx, success_count, calls, ui, cellUi, rate, batchVars,
                  lookupVars, cellVars, waits, view_result, raised >>

\* lines 296-316: look for an Add control among the candidate selectors, in
\* priority order, and click the first one found; none found is not fatal
AddButton ==
  /\ pc = "add_button"
  /\ \E present \in SUBSET (1..NumAddSelectors), probe \in OkRaise,
        click \in OkRaise, grows \in BOOLEAN :
       LET add_button == IF present = {} THEN 0 ELSE Min(present) IN
       /\ waits' = Append(waits, [call |-> "count_add", out |-> probe])
       /\ IF probe = "raise"
            THEN /\ AddRaise(fault)
                 /\ UNCHANGED << ui, nRows >>
          ELSE IF add_button = 0
            THEN /\ pc' = "add_rows"
                 /\ UNCHANGED << ret, fault, ui, nRows, raised >>
          ELSE /\ ui' = Append(ui, [act |-> "click_add", target |-> 0,
                                     ok |-> click = "ok"])
               /\ nRows' = IF grows /\ nRows < MaxRows THEN nRows + 1 ELSE nRows
               /\ IF click = "raise"
                    THEN AddRaise(fault)
                    ELSE /\ pc' = "add_rows"
                         /\ UNCHANGED << ret, fault, raised >>
  /\ UNCHANGED << outerVars, column_mapping, op, caller, test_data, row_identifier,
                  row_locator, fieldIdx, success_count, calls, cellUi, rate,
                  batchVars, lookupVars, cellVars, gridVars, view_result >>

\* line 327: data_rows.nth(row_count - 1), the last of row_count rows
LastRow_first(row_count) == Nth(row_count, 0)

LastRow(row_count) == Nth(row_count, row_count - 1)

\* lines 319-333: count the rows, take the last one and click it
AddRows ==
  /\ pc = "add_rows"
  /\ \E cnt \in OkRaise, click \in OkRaise :
       LET row_count == nRows IN
       /\ waits' = Append(waits, [call |-> "count_rows", out |-> cnt])
       /\ IF cnt = "raise"
            THEN /\ AddRaise(fault)
                 /\ UNCHANGED << row_locator, ui >>
          ELSE IF row_count > 0
            THEN /\ row_locator' = LastRow(row_count)
                 /\ ui' = Append(ui, [act |-> "click_row", target |-> row_locator',
                                       ok |-> click = "ok"])
                 /\ IF click = "raise"
                      THEN AddRaise(fault)
                      ELSE /\ pc' = "add_fields"
                           /\ UNCHANGED << ret, fault, raised >>
          ELSE /\ AddReturn(FALSE, fault)
               /\ UNCHANGED << row_locator, ui, raised >>
  /\ UNCHANGED << outerVars, pageVars, op, caller, test_data, row_identifier, fieldIdx,
                  success_count, calls, cellUi, rate, batchVars, lookupVars,
                  cellVars, gridVars, view_result >>

\* one iteration of "for field_name, field_value in data_dict.items()"
\* (lines 336-340 and 374-381): a mapped field goes to fill_single_cell,
\* and the loop goes on to the next field whatever that call returned
FieldIteration_abort ==
  LET item == to_dict(test_data)[fieldIdx + 1] IN
  /\ fieldIdx < Len(to_dict(test_data))
  /\ IF item.name \in DOMAIN column_mapping
       THEN \E d \in DriverCell :
              LET r == fill_single_cell(row_locator, item.name, item.value, d) IN
              /\ calls' = Append(calls, [field |-> item.name, row |-> row_locator,
                                         value |-> item.value])
              /\ cellUi' = r.ui
              /\ cellField' = item.name
              /\ cellAns' = d
              /\ cellRet' = r.ret
              /\ success_count' = IF r.ret THEN success_count + 1 ELSE success_count
              /\ fieldIdx' = IF r.ret THEN fieldIdx + 1 ELSE Len(to_dict(test_data))
       ELSE /\ fieldIdx' = fieldIdx + 1
            /\ UNCHANGED << calls, cellUi, success_count, cellVars >>

FieldIteration ==
  LET item == to_dict(test_data)[fieldIdx + 1] IN
  /\ fieldIdx < Len(to_dict(test_data))
  /\ fieldIdx' = fieldIdx + 1
  /\ IF item.name \in DOMAIN column_mapping
       THEN \E d \in DriverCell :
              LET r == fill_single_cell(row_locator, item.name, item.value, d) IN
              /\ calls' = Append(calls, [field |-> item.name, row |-> row_locator,
                                         value |-> item.value])
              /\ cellUi' = r.ui
              /\ cellField' = item.name
              /\ cellAns' = d
              /\ cellRet' = r.ret
              /\ success_count' = IF r.ret THEN success_count + 1 ELSE success_count
       ELSE UNCHANGED << calls, cellUi, success_count, cellVars >>

AddField ==
  /\ pc = "add_fields"
  /\ FieldIteration
  /\ UNCHANGED << outerVars, pageVars, pc, op, caller, test_data, row_identifier,
                  row_locator, ui, rate, ret, fault, batchVars, lookupVars,
                  gridVars, waits, view_result, raised >>

\* lines 342-349: success_rate and the decision of add_new_test_data
AddDecide ==
  /\ pc = "add_fields"
  /\ fieldIdx = Len(to_dict(test_data))
  /\ LET q == Divide(success_count, RateDenominator(test_data, Len(calls))) IN
       IF q.fault # "none"
         THEN /\ AddRaise(q.fault)
              /\ UNCHANGED rate
         ELSE /\ rate' = q.value
              /\ AddReturn(GE80(q.value), fault)
              /\ UNCHANGED raised
  /\ UNCHANGED << outerVars, pageVars, op, caller, test_data, row_identifier, row_locator,
                  fieldIdx, success_count, calls, ui, cellUi, batchVars,
                  lookupVars, cellVars, gridVars, waits, view_result >>

(* ---------------------------------------------------------------------- *)
(* edit_test_data                                                          *)
(* ---------------------------------------------------------------------- *)
\* lines 396-398: the handler of edit_test_data
EditExcept_reraise == [ret |-> FALSE, raised |-> TRUE]

EditExcept == [ret |-> FALSE, raised |-> FALSE]

StartEdit ==
  /\ CanStart
  /\ \/ \E rid \in Ordinals : EnterCall(1, rid)
     \/ \E txt \in TextIds : EnterCallWith(1, 0, txt)
  /\ ResetBatch
  /\ op' = "edit"
  /\ caller' = "top"
  /\ pc' = "edit_find"
  /\ UNCHANGED << outerVars, pageVars >>

\* lines 360-368: resolve the row, give up on None, click the row
EditFind ==
  /\ pc = "edit_find"
  /\ \E g \in GridAnswers, cnt \in OkRaise, click \in OkRaise, m \in MatchSets :
       LET f == ResolveRow(m, g, cnt) IN
       /\ row_locator' = f
       /\ matched' = MatchedBy(m, g, cnt)
       /\ grid_seen' = g
       /\ ready_checks' = ready_checks + 1
       /\ IF NotFound(f)
            THEN /\ ret' = FALSE
                 /\ pc' = "done"
                 /\ UNCHANGED << ui, raised >>
            ELSE /\ ui' = Append(ui, [act |-> "click_row", target |-> f,
                                       ok |-> click = "ok"])
                 /\ IF click = "raise"
                      THEN /\ ret' = EditExcept.ret
                           /\ raised' = EditExcept.raised
                           /\ pc' = "done"
                      ELSE /\ pc' = "edit_fields"
                           /\ UNCHANGED << ret, raised >>
  /\ UNCHANGED << outerVars, pageVars, fault, op, caller, test_data, row_identifier, fieldIdx,
                  success_count, calls, cellUi, rate, batchVars, row_text,
                  cellVars, waits, view_result >>

EditField ==
  /\ pc = "edit_fields"
  /\ FieldIteration
  /\ UNCHANGED << outerVars, pageVars, pc, op, caller, test_data, row_identifier,
                  row_locator, ui, rate, ret, fault, batchVars, lookupVars,
                  gridVars, waits, view_result, raised >>

\* the decision of edit_test_data (lines 386-394)
EditVerdict_strict(r, count) == GE80(r)

EditVerdict(r, count) ==
  IF GE80(r) THEN TRUE
  ELSE IF count > 0 THEN TRUE
  ELSE FALSE

\* lines 383-394: success_rate and the decision
EditDecide ==
  /\ pc = "edit_fields"
  /\ fieldIdx = Len(to_dict(test_data))
  /\ LET q == Divide(success_count, RateDenominator(test_data, Len(calls))) IN
       IF q.fault # "none"
         THEN /\ ret' = EditExcept.ret
              /\ raised' = EditExcept.raised
              /\ fault' = q.fault
              /\ UNCHANGED rate
         ELSE /\ rate' = q.value
              /\ ret' = EditVerdict(q.value, success_count)
              /\ UNCHANGED << fault, raised >>
  /\ pc' = "done"
  /\ UNCHANGED << outerVars, pageVars, op, caller, test_data, row_identifier, row_locator,
                  fieldIdx, success_count, calls, ui, cellUi, batchVars,
                  lookupVars, cellVars, gridVars, waits, view_result >>

(* ---------------------------------------------------------------------- *)
(* find_grid_row called on its own                                         *)
(* ---------------------------------------------------------------------- *)
StartFind ==
  /\ CanStart
  /\ \/ \E rid \in Ordinals : EnterCall(0, rid)
     \/ \E txt \in TextIds : EnterCallWith(0, 0, txt)
  /\ ResetBatch
  /\ op' = "find"
  /\ caller' = "top"
  /\ pc' = "find"
  /\ UNCHANGED << outerVars, pageVars >>

FindRow ==
  /\ pc = "find"
  /\ \E g \in GridAnswers, cnt \in OkRaise, m \in MatchSets :
       /\ row_locator' = ResolveRow(m, g, cnt)
       /\ matched' = MatchedBy(m, g, cnt)
       /\ grid_seen' = g
       /\ ready_checks' = ready_checks + 1
  /\ pc' = "done"
  /\ UNCHANGED << outerVars, pageVars, fault, op, caller, test_data, row_identifier, fieldIdx,
                  success_count, calls, ui, cellUi, rate, ret, batchVars,
                  row_text, cellVars, waits, view_result, raised >>

(* ---------------------------------------------------------------------- *)
(* batch_add_test_data                                                     *)
(* ---------------------------------------------------------------------- *)

\* the i-th item of enumerate(test_data_list, 1)
BatchItem_reversed(list, i) == list[Len(list) - i + 1]

BatchItem(list, i) == list[i]

\* line 536: the delay follows every item but the last
NeedsDelay_always(i, n) == TRUE

NeedsDelay(i, n) == i < n

\* line 540: the batch succeeded when at least one item did
BatchSuccess_all(count, n) == count = n

BatchSuccess(count, n) == count > 0

\* lines 551-559: the handler of batch_add_test_data
BatchExcept_reraise == [success |-> FALSE, raised |-> TRUE]

BatchExcept == [success |-> FALSE, raised |-> FALSE]

\* line 544: success_count / len(list) if the list is not empty, else 0
BatchRate(count, list) ==
  IF list # << >> THEN Divide(count, Len(list))
  ELSE [fault |-> "none", value |-> <<0, 1>>]

StartBatch ==
  /\ CanStart
  /\ EnterCall(0, 0)
  /\ \E list \in BatchLists : test_data_list' = list
  /\ bi' = 0
  /\ b_success_count' = 0
  /\ b_failed_count' = 0
  /\ results' = << >>
  /\ blog' = << >>
  /\ batch_result' = NoBatchResult
  /\ op' = "batch"
  /\ caller' = "batch"
  /\ pc' = "batch_loop"
  /\ UNCHANGED << outerVars, pageVars >>

\* lines 523-526: the next item of the loop, handed to add_new_test_data
BatchNext ==
  /\ pc = "batch_loop"
  /\ bi < Len(test_data_list)
  /\ bi' = bi + 1
  /\ EnterCall(BatchItem(test_data_list, bi + 1), 0)
  /\ blog' = Append(blog, [e |-> "begin", item |-> bi + 1,
                           data |-> BatchItem(test_data_list, bi + 1),
                           ok |-> FALSE])
  /\ pc' = "add_ready"
  /\ UNCHANGED << outerVars, pageVars, op, caller, test_data_list, b_success_count,
                  b_failed_count, results, batch_result >>

\* lines 528-537: book the item's outcome, then the delay unless it was the last
BatchRecord ==
  /\ pc = "batch_record"
  /\ blog' = Append(blog, [e |-> "end", item |-> bi, data |-> test_data,
                           ok |-> ret])
  /\ IF ret
       THEN /\ b_success_count' = b_success_count + 1
            /\ results' = Append(results, [index |-> bi, status |-> "success",
                                           data |-> to_dict(test_data)])
            /\ UNCHANGED b_failed_count
       ELSE /\ b_failed_count' = b_failed_count + 1
            /\ results' = Append(results, [index |-> bi, status |-> "failed",
                                           data |-> to_dict(test_data)])
            /\ UNCHANGED b_success_count
  /\ pc' = IF NeedsDelay(bi, Len(test_data_list)) THEN "batch_delay" ELSE "batch_loop"
  /\ UNCHANGED << outerVars, pageVars, op, caller, test_data, row_identifier, row_locator,
                  fieldIdx, success_count, calls, ui, cellUi, rate, ret, fault,
                  test_data_list, bi, batch_result, lookupVars, cellVars,
                  gridVars, waits, view_result, raised >>

\* line 537: asyncio.sleep(1)
BatchDelay ==
  /\ pc = "batch_delay"
  /\ blog' = Append(blog, [e |-> "delay", item |-> bi, data |-> test_data,
                           ok |-> FALSE])
  /\ pc' = "batch_loop"
  /\ UNCHANGED << outerVars, pageVars, op, caller, test_data, row_identifier, row_locator,
                  fieldIdx, success_count, calls, ui, cellUi, rate, ret, fault,
                  test_data_list, bi, b_success_count, b_failed_count, results,
                  batch_result, lookupVars, cellVars, gridVars, waits,
                  view_result, raised >>

\* lines 539-559: the aggregate result; a fault while building it is caught
\* by the handler of lines 551-559
BatchFinish ==
  /\ pc = "batch_loop"
  /\ bi = Len(test_data_list)
  /\ LET q == BatchRate(b_success_count, test_data_list) IN
       IF q.fault = "none"
         THEN /\ batch_result' =
                   [kind |-> "result",
                    success |-> BatchSuccess(b_success_count, Len(test_data_list)),
                    total |-> Len(test_data_list),
                    success_count |-> b_success_count,
                    failed_count |-> b_failed_count,
                    success_rate |-> q.value,
                    details |-> results]
              /\ UNCHANGED << fault, raised >>
         ELSE /\ batch_result' =
                   [kind |-> "error",
                    success |-> BatchExcept.success,
                    total |-> Len(test_data_list),
                    success_count |-> 0,
                    failed_count |-> Len(test_data_list)]
              /\ fault' = q.fault
              /\ raised' = BatchExcept.raised
  /\ pc' = "done"
  /\ UNCHANGED << outerVars, pageVars, op, caller, test_data, row_identifier, row_locator,
                  fieldIdx, success_count, calls, ui, cellUi, rate, ret,
                  test_data_list, bi, b_success_count, b_failed_count, results,
                  blog, lookupVars, cellVars, gridVars, waits, view_result >>

(* ---------------------------------------------------------------------- *)
(* navigate_to_mmt010 and wait_for_login                                   *)
(* ---------------------------------------------------------------------- *)

\* the locals of add/edit, which the other operations leave alone
fieldVars == << test_data, row_identifier, row_locator, fieldIdx,
                success_count, calls, cellUi, rate, fault >>

\* password inputs the login probe can count
PasswordCounts == {0, 1}

\* lines 64-66: the handler of navigate_to_mmt010
NavExcept_reraise == [ret |-> FALSE, raised |-> TRUE]

NavExcept == [ret |-> FALSE, raised |-> FALSE]

\* lines 96-98: the handler of wait_for_login
LoginExcept_true == [ret |-> TRUE, raised |-> FALSE]

LoginExcept == [ret |-> FALSE, raised |-> FALSE]

\* line 77: the login page is showing
LoginPageShown_always(password_inputs) == TRUE

LoginPageShown(password_inputs) == password_inputs > 0

StartNavigate ==
  /\ CanStart
  /\ EnterCall(0, 0)
  /\ ResetBatch
  /\ op' = "navigate"
  /\ caller' = "top"
  /\ pc' = "nav_goto"
  /\ UNCHANGED << outerVars, pageVars >>

\* lines 50-53: page.goto(base_url), bounded by page_load_timeout
NavGoto ==
  /\ pc = "nav_goto"
  /\ \E a \in OkRaise :
       /\ waits' = Append(waits, [call |-> "goto", out |-> a])
       /\ IF a = "raise"
            THEN /\ ret' = NavExcept.ret
                 /\ raised' = NavExcept.raised
                 /\ pc' = "done"
            ELSE /\ pc' = "nav_idle"
                 /\ UNCHANGED << ret, raised >>
  /\ UNCHANGED << outerVars, pageVars, op, caller, fieldVars, ui, batchVars, lookupVars,
                  cellVars, gridVars, view_result >>

\* lines 56-62: wait_for_load_state('networkidle'), then return True
NavIdle ==
  /\ pc = "nav_idle"
  /\ \E a \in OkRaise :
       /\ waits' = Append(waits, [call |-> "wait_for_load_state", out |-> a])
       /\ IF a = "raise"
            THEN /\ ret' = NavExcept.ret
                 /\ raised' = NavExcept.raised
            ELSE /\ ret' = TRUE
                 /\ UNCHANGED raised
  /\ pc' = "done"
  /\ UNCHANGED << outerVars, pageVars, op, caller, fieldVars, ui, batchVars, lookupVars,
                  cellVars, gridVars, view_result >>

StartLogin ==
  /\ CanStart
  /\ EnterCall(0, 0)
  /\ ResetBatch
  /\ op' = "login"
  /\ caller' = "top"
  /\ pc' = "login_probe"
  /\ UNCHANGED << outerVars, pageVars >>

\* lines 72-77 and 93-94: count the password inputs; with none of them the
\* call returns True at once
LoginProbe ==
  /\ pc = "login_probe"
  /\ \E a \in OkRaise, password_inputs \in PasswordCounts :
       LET counted == IF password_inputs = 0 THEN "zero" ELSE "some" IN
       IF a = "raise"
         THEN /\ waits' = Append(waits, [call |-> "count_password", out |-> "raise"])
              /\ ret' = LoginExcept.ret
              /\ raised' = LoginExcept.raised
              /\ pc' = "done"
       ELSE /\ waits' = Append(waits, [call |-> "count_password", out |-> counted])
            /\ IF LoginPageShown(password_inputs)
                 THEN /\ pc' = "login_url"
                      /\ UNCHANGED << ret, raised >>
                 ELSE /\ ret' = TRUE
                      /\ pc' = "done"
                      /\ UNCHANGED raised
  /\ UNCHANGED << outerVars, pageVars, op, caller, fieldVars, ui, batchVars, lookupVars,
                  cellVars, gridVars, view_result >>

\* lines 81-84: wait_for_url("**/MMT010_Index*"), bounded by login_timeout
LoginWaitUrl ==
  /\ pc = "login_url"
  /\ \E a \in OkRaise :
       /\ waits' = Append(waits, [call |-> "wait_for_url", out |-> a])
       /\ IF a = "raise"
            THEN /\ ret' = LoginExcept.ret
                 /\ raised' = LoginExcept.raised
                 /\ pc' = "done"
            ELSE /\ pc' = "login_idle"
                 /\ UNCHANGED << ret, raised >>
  /\ UNCHANGED << outerVars, pageVars, op, caller, fieldVars, ui, batchVars, lookupVars,
                  cellVars, gridVars, view_result >>

\* lines 89-94: wait_for_load_state('networkidle', 30000), then return True
LoginWaitIdle ==
  /\ pc = "login_idle"
  /\ \E a \in OkRaise :
       /\ waits' = Append(waits, [call |-> "wait_for_load_state", out |-> a])
       /\ IF a = "raise"
            THEN /\ ret' = LoginExcept.ret
                 /\ raised' = LoginExcept.raised
            ELSE /\ ret' = TRUE
                 /\ UNCHANGED raised
  /\ pc' = "done"
  /\ UNCHANGED << outerVars, pageVars, op, caller, fieldVars, ui, batchVars, lookupVars,
                  cellVars, gridVars, view_result >>

(* ---------------------------------------------------------------------- *)
(* get_grid_info and view_test_data                                        *)
(* ---------------------------------------------------------------------- *)
PreviewRows == 10   \* rows view_test_data reads at most
PreviewCols == 6    \* cells per row, and header cells, read at most

CellCounts == 0..MaxCells

Least_uncapped(a, b) == a

Least(a, b) == IF a <= b THEN a ELSE b

\* get_grid_info (lines 169-203) on a grid of n rows whose header row has
\* header_count cells (0: no header row); cnt and hdr are the outcomes of
\* the count() queries on the data rows and on the header.  A header cell
\* whose text cannot be read gets a placeholder, so headers has
\* min(header_count, 6) entries either way.
get_grid_info(g, cnt, n, hdr, header_count) ==
  IF ~wait_for_grid_ready(g)
    THEN [kind |-> "error"]
  ELSE IF cnt = "raise" \/ hdr = "raise"
    THEN [kind |-> "error", grid_ready |-> FALSE]
  ELSE [kind |-> "info", row_count |-> n,
        headers |-> Least(header_count, PreviewCols), grid_ready |-> TRUE]

\* grid_info.get("grid_ready", False)
GridReadyOf(grid_info) ==
  IF "grid_ready" \in DOMAIN grid_info THEN grid_info.grid_ready ELSE FALSE

\* lines 466-473: what view_test_data returns for a grid without data rows
EmptyView_failure(headers) == [kind |-> "error", success |-> FALSE]

EmptyView(headers) ==
  [kind |-> "empty", success |-> TRUE, row_count |-> 0, headers |-> headers,
   data |-> << >>]

StartView ==
  /\ CanStart
  /\ EnterCall(0, 0)
  /\ ResetBatch
  /\ op' = "view"
  /\ caller' = "top"
  /\ pc' = "view_info"
  /\ UNCHANGED << outerVars, pageVars >>

\* lines 458-473: get_grid_info, the readiness verdict and the empty grid
ViewInfo ==
  /\ pc = "view_info"
  /\ \E g \in GridAnswers, cnt \in OkRaise, hdr \in OkRaise,
        header_count \in CellCounts :
       LET grid_info == get_grid_info(g, cnt, nRows, hdr, header_count) IN
       /\ grid_seen' = g
       /\ ready_checks' = ready_checks + 1
       /\ waits' = IF wait_for_grid_ready(g)
                     THEN << [call |-> "count_rows", out |-> cnt],
                             [call |-> "count_header", out |-> hdr] >>
                     ELSE waits
       /\ IF ~GridReadyOf(grid_info)
            THEN /\ view_result' = [kind |-> "error", success |-> FALSE]
                 /\ pc' = "done"
          ELSE IF grid_info.row_count = 0
            THEN /\ view_result' = EmptyView(grid_info.headers)
                 /\ pc' = "done"
          ELSE /\ view_result' = [kind |-> "reading",
                                  row_count |-> grid_info.row_count,
                                  headers |-> grid_info.headers,
                                  data |-> << >>]
               /\ pc' = "view_rows"
  /\ UNCHANGED << outerVars, pageVars, op, caller, fieldVars, ui, ret, batchVars,
                  lookupVars, cellVars, raised >>

\* lines 479-497: one row of the preview; a row that cannot be read is
\* replaced by six failure markers
ViewRow ==
  /\ pc = "view_rows"
  /\ Len(view_result.data) < Least(view_result.row_count, PreviewRows)
  /\ \E a \in OkRaise, cell_count \in CellCounts :
       LET row_data == IF a = "raise"
                         THEN [cells |-> 6, read |-> FALSE]
                         ELSE [cells |-> Least(cell_count, PreviewCols),
                               read |-> TRUE] IN
       view_result' = [view_result EXCEPT !.data = Append(@, row_data)]
  /\ UNCHANGED << outerVars, pageVars, pc, op, caller, fieldVars, ui, ret, batchVars,
                  lookupVars, cellVars, gridVars, waits, raised >>

\* lines 499-508: the result of a preview
ViewFinish ==
  /\ pc = "view_rows"
  /\ Len(view_result.data) = Least(view_result.row_count, PreviewRows)
  /\ view_result' = [kind |-> "preview", success |-> TRUE,
                     row_count |-> view_result.row_count,
                     headers |-> view_result.headers,
                     preview_count |-> Len(view_result.data),
                     data |-> view_result.data]
  /\ pc' = "done"
  /\ UNCHANGED << outerVars, pageVars, op, caller, fieldVars, ui, ret, batchVars,
                  lookupVars, cellVars, gridVars, waits, raised >>

(* ---------------------------------------------------------------------- *)
(* delete_test_data                                                        *)
(* ---------------------------------------------------------------------- *)
NumDeleteSelectors == 4    \* delete_button_selectors has four entries

\* lines 448-450: the handler of delete_test_data
DeleteExcept == [ret |-> FALSE, raised |-> FALSE]

\* lines 423-428: the first selector, in list order, that finds an element
\* (0: none does)
FirstPresent_last(present) == IF present = {} THEN 0 ELSE Max(present)

FirstPresent(present) == IF present = {} THEN 0 ELSE Min(present)

StartDelete ==
  /\ CanStart
  /\ \/ \E rid \in Ordinals : EnterCall(0, rid)
     \/ \E txt \in TextIds : EnterCallWith(0, 0, txt)
  /\ ResetBatch
  /\ op' = "delete"
  /\ caller' = "top"
  /\ pc' = "del_find"
  /\ UNCHANGED << outerVars, pageVars >>

\* lines 405-413: resolve the row, give up on None, click the row
DelFind ==
  /\ pc = "del_find"
  /\ \E g \in GridAnswers, cnt \in OkRaise, click \in OkRaise, m \in MatchSets :
       LET f == ResolveRow(m, g, cnt) IN
       /\ row_locator' = f
       /\ matched' = MatchedBy(m, g, cnt)
       /\ grid_seen' = g
       /\ ready_checks' = ready_checks + 1
       /\ IF NotFound(f)
            THEN /\ ret' = FALSE
                 /\ pc' = "done"
                 /\ UNCHANGED << ui, raised >>
            ELSE /\ ui' = Append(ui, [act |-> "click_row", target |-> f,
                                       ok |-> click = "ok"])
                 /\ IF click = "raise"
                      THEN /\ ret' = DeleteExcept.ret
                           /\ raised' = DeleteExcept.raised
                           /\ pc' = "done"
                      ELSE /\ pc' = "del_button"
                           /\ UNCHANGED << ret, raised >>
  /\ UNCHANGED << outerVars, pageVars, fault, op, caller, test_data, row_identifier,
                  fieldIdx, success_count, calls, cellUi, rate, batchVars,
                  row_text, cellVars, waits, view_result >>

\* lines 416-432 and 444-446: look for the Delete control among the
\* candidate selectors, in list order, and click the first one found
DelButton ==
  /\ pc = "del_button"
  /\ \E present \in SUBSET (1..NumDeleteSelectors), probe \in OkRaise,
        click \in OkRaise :
       LET delete_button == FirstPresent(present) IN
       /\ waits' = Append(waits, [call |-> "count_delete", out |-> probe,
                                  present |-> IF probe = "ok" THEN present
                                              ELSE {}])
       /\ IF probe = "raise"
            THEN /\ ret' = DeleteExcept.ret
                 /\ raised' = DeleteExcept.raised
                 /\ pc' = "done"
                 /\ UNCHANGED ui
          ELSE IF delete_button = 0
            THEN /\ ret' = FALSE
                 /\ pc' = "done"
                 /\ UNCHANGED << ui, raised >>
          ELSE /\ ui' = Append(ui, [act |-> "click_delete",
                                     target |-> delete_button,
                                     ok |-> click = "ok"])
               /\ IF click = "raise"
                    THEN /\ ret' = DeleteExcept.ret
                         /\ raised' = DeleteExcept.raised
                         /\ pc' = "done"
                    ELSE /\ pc' = "del_confirm"
                         /\ UNCHANGED << ret, raised >>
  /\ UNCHANGED << outerVars, pageVars, fault, op, caller, test_data, row_identifier,
                  row_locator, fieldIdx, success_count, calls, cellUi, rate,
                  batchVars, lookupVars, cellVars, gridVars, view_result >>

\* lines 435-443: click the confirmation button if the page shows one, and
\* return True; the page may have removed the row by then
DelConfirm ==
  /\ pc = "del_confirm"
  /\ \E cnt \in OkRaise, dialog \in BOOLEAN, click \in OkRaise,
        removed \in BOOLEAN :
       /\ nRows' = IF removed /\ nRows > 0 THEN nRows - 1 ELSE nRows
       /\ waits' = Append(waits, [call |-> "count_confirm", out |-> cnt,
                                  present |-> IF cnt = "ok" /\ dialog THEN {1}
                                              ELSE {}])
       /\ IF cnt = "raise"
            THEN /\ ret' = DeleteExcept.ret
                 /\ raised' = DeleteExcept.raised
                 /\ UNCHANGED ui
          ELSE IF dialog
            THEN /\ ui' = Append(ui, [act |-> "click_confirm", target |-> 0,
                                       ok |-> click = "ok"])
                 /\ IF click = "raise"
                      THEN /\ ret' = DeleteExcept.ret
                           /\ raised' = DeleteExcept.raised
                      ELSE /\ ret' = TRUE
                           /\ UNCHANGED raised
          ELSE /\ ret' = TRUE
               /\ UNCHANGED << ui, raised >>
  /\ pc' = "done"
  /\ UNCHANGED << outerVars, column_mapping, fault, op, caller, test_data, row_identifier,
                  row_locator, fieldIdx, success_count, calls, cellUi, rate,
                  batchVars, lookupVars, cellVars, gridVars, view_result >>

(* ---------------------------------------------------------------------- *)
(* fill_single_cell called on its own                                      *)
(* ---------------------------------------------------------------------- *)
StartCell ==
  /\ CanStart
  /\ EnterCall(1, 0)
  /\ ResetBatch
  /\ op' = "cell"
  /\ caller' = "top"
  /\ pc' = "cell"
  /\ UNCHANGED << outerVars, pageVars >>

\* lines 241-285: one call of fill_single_cell, for any column name
FillCell ==
  /\ pc = "cell"
  /\ \E column_name \in Fields, d \in DriverCell :
       LET r == fill_single_cell(row_locator, column_name,
                                 <<test_data, column_name>>, d) IN
       /\ cellField' = column_name
       /\ cellAns' = d
       /\ cellUi' = r.ui
       /\ cellRet' = r.ret
       /\ ret' = r.ret
  /\ pc' = "done"
  /\ UNCHANGED << outerVars, pageVars, op, caller, test_data, row_identifier, row_locator,
                  fieldIdx, success_count, calls, ui, rate, fault, batchVars,
                  lookupVars, gridVars, waits, view_result, raised >>

(* ---------------------------------------------------------------------- *)
(* Specification                                                           *)
(* ---------------------------------------------------------------------- *)
Next ==
  \/ StartAdd \/ AddReady \/ AddButton \/ AddRows \/ AddField \/ AddDecide
  \/ StartEdit \/ EditFind \/ EditField \/ EditDecide
  \/ StartFind \/ FindRow
  \/ StartBatch \/ BatchNext \/ BatchRecord \/ BatchDelay \/ BatchFinish
  \/ StartNavigate \/ NavGoto \/ NavIdle
  \/ StartLogin \/ LoginProbe \/ LoginWaitUrl \/ LoginWaitIdle
  \/ StartView \/ ViewInfo \/ ViewRow \/ ViewFinish
  \/ StartDelete \/ DelFind \/ DelButton \/ DelConfirm
  \/ StartCell \/ FillCell

Spec == Init /\ [][Next]_vars

(* ---------------------------------------------------------------------- *)
(* view_test_data on grids larger than the preview window                  *)
(* ---------------------------------------------------------------------- *)

\* no operation is running and none has run
Quiescent ==
  /\ pc = "idle"
  /\ op = "none"
  /\ caller = "top"
  /\ test_data = 0
  /\ row_identifier = 0
  /\ row_locator = None
  /\ fieldIdx = 0
  /\ success_count = 0
  /\ calls = << >>
  /\ ui = << >>
  /\ cellUi = << >>
  /\ rate = <<0, 0>>
  /\ ret = FALSE
  /\ fault = "none"
  /\ test_data_list = << >>
  /\ bi = 0
  /\ b_success_count = 0
  /\ b_failed_count = 0
  /\ results = << >>
  /\ blog = << >>
  /\ batch_result = NoBatchResult
  /\ row_text = ""
  /\ matched = {}
  /\ cellField = ""
  /\ cellAns = NoAnswers
  /\ cellRet = FALSE
  /\ grid_seen = "unasked"
  /\ ready_checks = 0
  /\ waits = << >>
  /\ view_result = NoViewResult
  /\ raised = FALSE

\* a page whose grid renders up to MaxViewRows rows; nothing is running
InitView ==
  /\ column_mapping = DefaultColumnMapping
  /\ nRows \in 0..MaxViewRows
  /\ Quiescent
  /\ InitRecordIdle
  /\ InitApp

\* on a grid of more than MaxRows rows every row read is one of the two
\* extreme kinds: at least as wide as the preview window, or unreadable
\* (smaller grids are read with every width)
ViewRowOfBigGrid ==
  /\ ViewRow
  /\ nRows > MaxRows =>
       LET last == view_result'.data[Len(view_result'.data)] IN
       ~last.read \/ last.cells = PreviewCols

NextView == StartView \/ ViewInfo \/ ViewRowOfBigGrid \/ ViewFinish

SpecView == InitView /\ [][NextView]_vars

(* ---------------------------------------------------------------------- *)
(* The connection steps on their own, with the waits' timeouts             *)
(* ---------------------------------------------------------------------- *)
NextConnect ==
  \/ StartNavigate \/ NavGoto \/ NavIdle
  \/ StartLogin \/ LoginProbe \/ LoginWaitUrl \/ LoginWaitIdle

\* goto, wait_for_url and wait_for_load_state are all called with a timeout
\* (lines 52, 58, 83, 91): each of them comes back, so a started coroutine
\* takes its next step
SpecConnect ==
  /\ Init
  /\ [][NextConnect]_vars
  /\ WF_vars(NavGoto) /\ WF_vars(NavIdle)
  /\ WF_vars(LoginProbe) /\ WF_vars(LoginWaitUrl) /\ WF_vars(LoginWaitIdle)

(* ---------------------------------------------------------------------- *)
(* TestData (src/src/data_manager.py): construction and its validators     *)
(* ---------------------------------------------------------------------- *)

\* strings are sequences of characters; " " stands for any whitespace, "a"
\* for a lower-case and "A" for an upper-case character
Chars == {" ", "a", "A"}

Strings == UNION { [1..k -> Chars] : k \in 0..MaxStrLen }

\* str.strip(): without the leading and the trailing whitespace
RECURSIVE lstrip(_)
lstrip(v) == IF v # << >> /\ Head(v) = " " THEN lstrip(Tail(v)) ELSE v

RECURSIVE rstrip(_)
rstrip(v) ==
  IF v # << >> /\ v[Len(v)] = " " THEN rstrip(SubSeq(v, 1, Len(v) - 1)) ELSE v

strip(v) == rstrip(lstrip(v))

\* str.upper()
upper(v) == [j \in 1..Len(v) |-> IF v[j] = "a" THEN "A" ELSE v[j]]

\* the validators of lines 37-60: the value stored, or the rejection
Rejected == << "ValueError" >>

validate_part_number(v) ==
  IF v = << >> \/ Len(v) < 3 THEN Rejected ELSE upper(strip(v))

allowed_stations ==
  { <<"B", "/", "I">>, <<"F", "T">>, <<"P", "T">>, <<"S", "H", "I", "P">>,
    <<"B", "I">> }

validate_station(v) == IF v \notin allowed_stations THEN Rejected ELSE v

validate_version(v) ==
  IF v = << >> \/ Len(v) < 5 THEN Rejected ELSE strip(v)

validate_description(v) ==
  IF v = << >> \/ Len(v) < 3 THEN Rejected ELSE strip(v)

\* MFGID群組 has no validator (line 30): any string is stored as it is
validate_group(v) == v

\* TestData(**args): every validator runs; one rejection rejects the record
TestDataNew(args) ==
  LET rec == [part_number |-> validate_part_number(args.part_number),
              station |-> validate_station(args.station),
              version |-> validate_version(args.version),
              description |-> validate_description(args.description),
              manufacturing_group |-> validate_group(args.manufacturing_group)]
  IN IF \E f \in Fields : rec[f] = Rejected
       THEN [status |-> "rejected"]
       ELSE [status |-> "built", rec |-> rec]

\* a well-formed input, and the inputs that differ from it in one field
GoodArgs ==
  [part_number |-> <<"a", "A", "a">>,
   station |-> <<"F", "T">>,
   version |-> <<"A", "a", "A", "a", "A">>,
   description |-> <<"a", "a", "a">>,
   manufacturing_group |-> <<"A">>]

StationInputs == allowed_stations \cup { << >>, <<" ">>, <<"f", "t">> }

RecordInputs ==
  { [GoodArgs EXCEPT ![f] = v] :
      f \in Fields \ {"station"}, v \in Strings }
  \cup { [GoodArgs EXCEPT !.station = v] : v \in StationInputs }

\* one construction (a construction does not depend on earlier ones)
NewTestData ==
  /\ record_in = NoRecord
  /\ \E args \in RecordInputs :
       /\ record_in' = args
       /\ record_out' = TestDataNew(args)
  /\ UNCHANGED << appVars, pageVars, pc, op, caller, fieldVars, ui, ret,
                  batchVars, lookupVars, cellVars, gridVars, waits,
                  view_result, raised >>

InitRecord ==
  /\ column_mapping = DefaultColumnMapping
  /\ nRows = 0
  /\ Quiescent
  /\ InitRecordIdle
  /\ InitApp

NextRecord == NewTestData

SpecRecord == InitRecord /\ [][NextRecord]_vars

(* ---------------------------------------------------------------------- *)
(* MT151App (src/src/main.py): the menu loop around the automation object  *)
(* ---------------------------------------------------------------------- *)

\* the menu entries that drive the grid: 4 search, 5 save, 6 grid operations
GridEntries == {"search", "save", "grid"}

\* start_browser_and_connect is between its first and its last statement
Connecting == connect \in {"navigating", "login"}

\* the menu loop awaits every choice before it reads the next one
MenuIdle == CanStart /\ ~Connecting

\* the entry of a call of navigate, wait_for_login or view_test_data
BeginCall(name, at) ==
  /\ EnterCall(0, 0)
  /\ ResetBatch
  /\ op' = name
  /\ caller' = "top"
  /\ pc' = at

\* main.py lines 329 / 593 / 599: "if self.automation"
Gate == automation

\* choice 1, lines 163-203: an already started browser is kept (return True)
\* or closed, which also drops the automation object; then the browser is
\* started, and once there is a page the automation object is created and
\* navigate_to_mmt010 is called
MenuConnect ==
  /\ MenuIdle
  /\ menu' = NoMenu
  /\ \E restart \in BOOLEAN, started \in {"no_choice", "no_browser", "no_page",
                                          "error", "page"} :
       IF browser /\ ~restart
         THEN /\ UNCHANGED << automation, browser, connect >>
              /\ UNCHANGED << pc, op, caller, fieldVars, ui, ret, batchVars,
                              lookupVars, cellVars, gridVars, waits,
                              view_result, raised >>
       ELSE IF started = "page"
         THEN /\ browser' = TRUE
              /\ automation' = TRUE
              /\ connect' = "navigating"
              /\ BeginCall("navigate", "nav_goto")
       ELSE /\ browser' = (started = "no_page")
            /\ automation' = IF browser THEN FALSE ELSE automation
            /\ connect' = started
            /\ UNCHANGED << pc, op, caller, fieldVars, ui, ret, batchVars,
                            lookupVars, cellVars, gridVars, waits,
                            view_result, raised >>
  /\ UNCHANGED << recVars, pageVars >>

\* lines 203-213: navigate returned; on True wait_for_login is called
ConnectNavigated ==
  /\ connect = "navigating" /\ op = "navigate" /\ pc = "done"
  /\ IF ret
       THEN /\ connect' = "login"
            /\ BeginCall("login", "login_probe")
       ELSE /\ connect' = "nav_failed"
            /\ UNCHANGED << pc, op, caller, fieldVars, ui, ret, batchVars,
                            lookupVars, cellVars, gridVars, waits,
                            view_result, raised >>
  /\ UNCHANGED << recVars, pageVars, automation, browser, menu >>

\* lines 205-210: wait_for_login returned
ConnectLoggedIn ==
  /\ connect = "login" /\ op = "login" /\ pc = "done"
  /\ connect' = IF ret THEN "ok" ELSE "login_failed"
  /\ UNCHANGED << recVars, pageVars, automation, browser, menu, pc, op, caller,
                  fieldVars, ui, ret, batchVars, lookupVars, cellVars,
                  gridVars, waits, view_result, raised >>

\* choices 4, 5 and 6 (lines 592-605 and 327-331): turned down without an
\* automation object; otherwise the entry runs (for the grid operations:
\* view_test_data)
MenuGridEntry ==
  /\ MenuIdle
  /\ \E entry \in GridEntries :
       IF ~Gate
         THEN /\ menu' = [entry |-> entry, outcome |-> "refused"]
              /\ UNCHANGED << pc, op, caller, fieldVars, ui, ret, batchVars,
                              lookupVars, cellVars, gridVars, waits,
                              view_result, raised >>
       ELSE IF entry = "grid"
         THEN /\ menu' = [entry |-> entry, outcome |-> "ran"]
              /\ BeginCall("view", "view_info")
       ELSE /\ menu' = [entry |-> entry, outcome |-> "ran"]
            /\ UNCHANGED << pc, op, caller, fieldVars, ui, ret, batchVars,
                            lookupVars, cellVars, gridVars, waits,
                            view_result, raised >>
  /\ UNCHANGED << recVars, pageVars, automation, browser, connect >>

InitMenu ==
  /\ column_mapping = DefaultColumnMapping
  /\ nRows \in 0..MaxRows
  /\ Quiescent
  /\ InitRecordIdle
  /\ InitApp

NextMenu ==
  \/ MenuConnect \/ ConnectNavigated \/ ConnectLoggedIn \/ MenuGridEntry
  \/ NavGoto \/ NavIdle \/ LoginProbe \/ LoginWaitUrl \/ LoginWaitIdle
  \/ ViewInfo \/ ViewRow \/ ViewFinish

SpecMenu == InitMenu /\ [][NextMenu]_vars

(* ---------------------------------------------------------------------- *)
(* Properties                                                              *)
(* ---------------------------------------------------------------------- *)

\* add_new_test_data has returned (to the top-level caller or to the batch)
AddReturned == (op = "create" /\ pc = "done") \/ pc = "batch_record"

\* edit_test_data has returned
EditReturned == op = "edit" /\ pc = "done"

\* the target row was found and selected: the call went on to the field loop
RowAcquired == \E j \in 1..Len(ui) : ui[j].act = "click_row" /\ ui[j].ok

\* the fields the Cell Editor was invoked for, in invocation order
CallFields == [j \in 1..Len(calls) |-> calls[j].field]

\* K / N >= 0.8 for K successes out of N attempts (false for N = 0)
AttemptRateGE80 == Len(calls) > 0 /\ success_count * 10 >= 8 * Len(calls)

\* the events of the batch log of one kind
BlogOf(kind) == SelectSeq(blog, LAMBDA ev : ev.e = kind)

\* the items whose create returned true
SucceededItems == { j \in 1..Len(blog) : blog[j].e = "end" /\ blog[j].ok }

\* C1: a create call that reached the field loop returns success iff
\* succeeded / attempted >= 0.8, attempted being the Cell Editor invocations.
C1_CreateSuccessIffAttemptRate ==
  (AddReturned /\ RowAcquired) => (ret <=> AttemptRateGE80)

\* C2: an edit call that resolved its row returns success iff
\* succeeded > 0 or rate >= 0.8; one success out of five is a success for
\* edit and a failure for create, zero successes is a failure for edit.
C2_EditSuccessRule ==
  /\ (EditReturned /\ row_locator # None)
        => (ret <=> (success_count > 0 \/ AttemptRateGE80))
  /\ (EditReturned /\ Len(calls) = 5 /\ success_count = 1) => ret
  /\ (AddReturned /\ Len(calls) = 5 /\ success_count = 1) => ~ret
  /\ (EditReturned /\ success_count = 0) => ~ret

C2_Witness ==
  EditReturned /\ row_locator # None /\ Len(calls) = 5 /\ success_count = 1 /\ ret

\* C3: the success_rate of create and edit is K / N exactly, N the number
\* of Cell Editor invocations and K the successful ones.
C3_RateIsSucceededOverAttempted ==
  ((AddReturned \/ EditReturned) /\ RowAcquired /\ Len(calls) > 0)
     => RateEq(rate, <<success_count, Len(calls)>>)

\* C4: with no field mapped (N = 0) create and edit finish without a
\* division fault and return failure.
C4_NoAttemptsNoFault ==
  ((AddReturned \/ EditReturned) /\ DOMAIN column_mapping = {})
     => (~ret /\ fault = "none" /\ Len(calls) = 0)

C4_Witness ==
  /\ AddReturned
  /\ RowAcquired
  /\ DOMAIN column_mapping = {}
  /\ fieldIdx = 5
  /\ ~ret

\* C5: with all five fields mapped, a create (or edit) call that acquired
\* its row invokes the Cell Editor exactly five times, once per field, in
\* the canonical order, whatever each edit's outcome; while the loop runs
\* the invocations are a prefix of that order.
C5_FiveEditsInCanonicalOrder ==
  DOMAIN column_mapping = Fields =>
    /\ CallFields = SubSeq(CanonicalOrder, 1, Len(calls))
    /\ ((AddReturned \/ EditReturned) /\ RowAcquired)
          => CallFields = CanonicalOrder

C5_Witness ==
  /\ AddReturned
  /\ RowAcquired
  /\ DOMAIN column_mapping = Fields
  /\ CallFields = CanonicalOrder
  /\ success_count = 2

\* C6: when the mapping lacks only manufacturing_group, create invokes the
\* Cell Editor at most four times, never for manufacturing_group, and
\* returns success whenever the four mapped edits all succeed.
C6_MissingGroupDoesNotFailCreate ==
  (op \in {"create", "batch"}
     /\ DOMAIN column_mapping = Fields \ {"manufacturing_group"})
  => /\ Len(calls) <= 4
     /\ \A j \in 1..Len(calls) : calls[j].field # "manufacturing_group"
     /\ (AddReturned /\ RowAcquired /\ success_count = 4) => ret

C6_Witness ==
  /\ AddReturned
  /\ DOMAIN column_mapping = Fields \ {"manufacturing_group"}
  /\ Len(calls) = 4
  /\ success_count = 4
  /\ ret

\* C7: batch_create returns total = length of the list, success_count = the
\* number of items whose create returned true, failed_count = total -
\* success_count, success_rate = success_count / total (0 for the empty
\* list, without a division fault) and success iff success_count > 0.
C7_BatchAggregate ==
  (op = "batch" /\ pc = "done") =>
    /\ batch_result.kind = "result"
    /\ fault = "none"
    /\ batch_result.total = Len(test_data_list)
    /\ batch_result.success_count = Cardinality(SucceededItems)
    /\ batch_result.failed_count = batch_result.total - batch_result.success_count
    /\ IF test_data_list = << >>
         THEN batch_result.success_rate[1] = 0
         ELSE RateEq(batch_result.success_rate,
                     <<Cardinality(SucceededItems), Len(test_data_list)>>)
    /\ batch_result.success <=> (Cardinality(SucceededItems) > 0)

\* the list [A, B, C] with A and C succeeding and B failing
C7_Witness ==
  /\ op = "batch"
  /\ pc = "done"
  /\ batch_result.kind = "result"
  /\ batch_result.total = 3
  /\ batch_result.success_count = 2
  /\ batch_result.failed_count = 1
  /\ batch_result.success
  /\ ~blog[5].ok

\* C8: batch_create invokes create once per record, in list order, each
\* invocation over before the next begins, and a failed item never stops
\* the later ones: the invocations are the whole list.
C8_BatchRunsWholeListInOrder ==
  op = "batch" =>
    /\ \A j \in 1..Len(blog) :
         blog[j].e = "begin" =>
           /\ blog[j].data = test_data_list[blog[j].item]
           /\ blog[j].item = Len(SelectSeq(SubSeq(blog, 1, j),
                                           LAMBDA ev : ev.e = "begin"))
           /\ j < Len(blog) =>
                (blog[j + 1].e = "end" /\ blog[j + 1].item = blog[j].item)
    /\ pc = "done" =>
         /\ [j \in 1..Len(BlogOf("begin")) |-> BlogOf("begin")[j].data]
              = test_data_list
         /\ Len(BlogOf("end")) = Len(test_data_list)

C8_Witness ==
  /\ op = "batch"
  /\ pc = "done"
  /\ Len(test_data_list) = 3
  /\ Len(BlogOf("begin")) = 3
  /\ ~blog[2].ok
  /\ blog[8].ok

\* C9: a delay step sits between the end of item i and the begin of item
\* i + 1, whether item i succeeded or not, and none follows the last item:
\* n - 1 delays for n >= 1.
C9_DelayBetweenItemsOnly ==
  op = "batch" =>
    /\ \A j \in 1..Len(blog) :
         /\ blog[j].e = "delay" =>
              /\ j > 1
              /\ blog[j - 1].e = "end"
              /\ blog[j - 1].item = blog[j].item
              /\ blog[j].item < Len(test_data_list)
         /\ (blog[j].e = "begin" /\ blog[j].item > 1) =>
              (blog[j - 1].e = "delay" /\ blog[j - 1].item = blog[j].item - 1)
    /\ (pc = "done" /\ Len(test_data_list) >= 1) =>
         /\ Len(BlogOf("delay")) = Len(test_data_list) - 1
         /\ blog[Len(blog)].e = "end"
    /\ (pc = "done" /\ Len(test_data_list) = 0) => blog = << >>

C9_Witness ==
  /\ op = "batch"
  /\ pc = "done"
  /\ Len(test_data_list) = 3
  /\ Len(BlogOf("delay")) = 2
  /\ ~blog[2].ok
  /\ blog[3].e = "delay"

\* C10: resolving an ordinal beyond the rendered rows gives None, with no
\* out-of-range fault.
C10_OrdinalPastEndIsNone ==
  (op \in {"find", "edit"} /\ pc = "done" /\ row_identifier > nRows)
     => (row_locator = None /\ fault = "none")

\* ordinal 3 with two rows
C10_Witness ==
  /\ op = "find"
  /\ pc = "done"
  /\ row_identifier = 3
  /\ nRows = 2
  /\ row_locator = None

\* find_grid_row has returned inside the running find or edit
LookupDone ==
  \/ op = "find" /\ pc = "done"
  \/ op = "edit" /\ pc \in {"edit_fields", "done"}
  \/ op = "delete" /\ pc \in {"del_button", "del_confirm", "done"}

\* C11: a lookup by text returns the first row, in rendered order, among the
\* rows whose text contains the identifier, and None when no row contains it.
C11_TextMatchFirstRow ==
  (LookupDone /\ row_text # "")
     => row_locator = (IF matched = {} THEN None
                       ELSE CHOOSE r \in matched : \A q \in matched : r <= q)

C11_Witness ==
  /\ op = "find" /\ pc = "done" /\ row_text # ""
  /\ matched = {1, 2}
  /\ row_locator = 1

\* the blocking waits among the driver calls of navigate / login
BlockingWaits ==
  SelectSeq(waits, LAMBDA w : w.call \in {"goto", "wait_for_url",
                                          "wait_for_load_state"})

\* C12: with no password input on the page wait_for_login returns true
\* without waiting for the post-login URL or issuing any other blocking wait.
C12_NoPasswordNoWait ==
  (op = "login" /\ pc = "done" /\ Len(waits) > 0 /\ waits[1].out = "zero")
     => (ret /\ ~raised /\ BlockingWaits = << >>)

C12_Witness ==
  /\ op = "login" /\ pc = "done"
  /\ waits = << [call |-> "count_password", out |-> "zero"] >>
  /\ ret

\* C13: navigate never raises; it returns false whenever the load of the
\* entry URL or the wait for network quiescence fails or times out, and true
\* only when both completed.
C13_NavigateFalseOnFailure ==
  (op = "navigate" /\ pc = "done")
     => /\ ~raised
        /\ ret <=> /\ Len(waits) = 2
                   /\ waits[1] = [call |-> "goto", out |-> "ok"]
                   /\ waits[2] = [call |-> "wait_for_load_state", out |-> "ok"]
        /\ (\E j \in 1..Len(waits) : waits[j].out = "raise") => ~ret

C13_Witness ==
  /\ op = "navigate" /\ pc = "done"
  /\ Len(waits) = 2 /\ waits[1].out = "ok" /\ waits[2].out = "raise"
  /\ ~ret

\* view_test_data has returned
ViewReturned == op = "view" /\ pc = "done"

\* the grid was visible and both count() queries of get_grid_info answered
GridInfoAnswered ==
  /\ grid_seen = "visible"
  /\ Len(waits) = 2 /\ waits[1].out = "ok" /\ waits[2].out = "ok"

\* C14: view on a visible grid with zero data rows returns success = true,
\* row_count = 0 and an empty data sequence; the headers may be non-empty.
C14_EmptyGridView ==
  (ViewReturned /\ GridInfoAnswered /\ nRows = 0)
     => /\ view_result.success
        /\ view_result.row_count = 0
        /\ view_result.data = << >>
        /\ view_result.headers \in 0..PreviewCols

C14_Witness ==
  /\ ViewReturned /\ GridInfoAnswered /\ nRows = 0
  /\ view_result.success
  /\ view_result.data = << >>
  /\ view_result.headers = 3

\* delete_test_data has returned
DeleteReturned == op = "delete" /\ pc = "done"

\* batch_add_test_data has returned
BatchReturned == op = "batch" /\ pc = "done"

\* a driver call of the running operation failed outside the Cell Editor
DriverFailed ==
  \/ \E j \in 1..Len(ui) : ~ui[j].ok
  \/ \E j \in 1..Len(waits) : waits[j].out = "raise"

\* C15: whatever driver calls fail, create, edit, delete, view and
\* batch_create hand a result value to their caller (a boolean, or a result
\* with a success field) and no error leaves the operation.
C15_FailuresBecomeResults ==
  /\ (AddReturned \/ EditReturned \/ DeleteReturned \/ ViewReturned
        \/ BatchReturned) => ~raised
  /\ (AddReturned \/ EditReturned \/ DeleteReturned) => ret \in BOOLEAN
  /\ ((AddReturned \/ EditReturned \/ DeleteReturned) /\ op # "batch"
        /\ DriverFailed) => ~ret
  /\ ViewReturned => /\ view_result.kind # "none"
                     /\ view_result.success \in BOOLEAN
                     /\ DriverFailed => ~view_result.success
  /\ BatchReturned => /\ batch_result.kind # "none"
                      /\ batch_result.success \in BOOLEAN

C15_Witness ==
  /\ op = "create" /\ pc = "done"
  /\ \E j \in 1..Len(ui) : ui[j].act = "click_add" /\ ~ui[j].ok
  /\ ~ret /\ ~raised

\* the mapped fields, in the order the loop meets them
MappedInOrder ==
  SelectSeq(CanonicalOrder, LAMBDA f : f \in DOMAIN column_mapping)

\* the step is a Cell Editor invocation of the field loop
CellAttempted == Len(calls') = Len(calls) + 1

\* a Cell Editor invocation that fails leaves the success count alone, and
\* the loop moves on to the next field without leaving the operation
FailedCellGoesOn ==
  (CellAttempted /\ ~cellRet')
     => /\ success_count' = success_count
        /\ fieldIdx' = fieldIdx + 1
        /\ pc' = pc
        /\ ~raised'

\* the rate computed at the end has the successful edits as its numerator
RateCountsSuccessesOnly ==
  ((AddReturned \/ EditReturned) /\ RowAcquired)
     => /\ CallFields = MappedInOrder
        /\ success_count <= Len(calls)
        /\ rate[1] * Len(to_dict(test_data)) = success_count * rate[2]

\* C16: in create and edit a failed cell edit does not abort the operation:
\* every remaining mapped field is still attempted, and the failed field is
\* not among the successes the rate is computed from.
C16_FailedCellDoesNotAbort ==
  [][FailedCellGoesOn]_vars /\ []RateCountsSuccessesOnly

C16_Witness ==
  /\ op = "edit" /\ pc = "done" /\ RowAcquired
  /\ DOMAIN column_mapping = Fields
  /\ Len(calls) = 5 /\ success_count = 3
  /\ cellRet
  /\ cellField = "manufacturing_group"

\* fill_single_cell has been called and has returned
CellReturned == cellAns # NoAnswers

\* the latest fill_single_cell issued the driver call a on the cell
Issued(a) == \E j \in 1..Len(cellUi) : cellUi[j] = a

\* C17: when the inline editor does not become visible after the
\* double-click, the Cell Editor clicks the page body before it returns
\* failure, and issues neither the fill nor the Enter key for that cell.
C17_EditorTimeoutRecovers ==
  (CellReturned /\ Issued("dblclick") /\ cellAns.dblclick = "ok"
     /\ cellAns.editor = "timeout")
  => /\ ~cellRet
     /\ cellUi = << "locate", "dblclick", "body_click" >>
     /\ ~Issued("fill") /\ ~Issued("press_enter")

C17_Witness ==
  /\ CellReturned
  /\ cellAns.cell = "one" /\ cellAns.dblclick = "ok" /\ cellAns.editor = "timeout"
  /\ Issued("dblclick") /\ Issued("body_click")
  /\ ~cellRet
  /\ op = "edit" /\ Len(calls) = 2

\* C18: every Cell Editor attempt that issued the double-click and returns
\* failure has issued the recovery click on the page body before returning,
\* also when the fill or the Enter key raises after the editor appeared.
C18_FailureAfterDblclickRecovers ==
  (CellReturned /\ Issued("dblclick") /\ ~cellRet) => Issued("body_click")

\* C19: the Cell Editor invoked with a field absent from the column mapping
\* returns failure, raises nothing and issues no UI action at all: no cell
\* lookup, double-click, fill, key press or recovery click.
C19_UnmappedFieldNoUi ==
  (op = "cell" /\ pc = "done" /\ cellField \notin DOMAIN column_mapping)
     => /\ ~cellRet /\ ~ret
        /\ ~raised
        /\ cellUi = << >>
        /\ ui = << >>

C19_Witness ==
  /\ op = "cell" /\ pc = "done"
  /\ cellField = "station" /\ "station" \notin DOMAIN column_mapping
  /\ "part_number" \in DOMAIN column_mapping
  /\ ~ret /\ cellUi = << >>

\* C20: when the grid container does not become visible in time, create,
\* edit, delete and view return failure after one readiness check, with no
\* retry and without any click, double-click, fill or key press.
C20_GridNotReadyIsFatal ==
  ((AddReturned \/ EditReturned \/ DeleteReturned \/ ViewReturned)
     /\ grid_seen = "timeout")
  => /\ ready_checks = 1
     /\ ui = << >> /\ cellUi = << >> /\ calls = << >>
     /\ ~raised
     /\ IF ViewReturned THEN ~view_result.success ELSE ~ret

C20_Witness ==
  /\ DeleteReturned
  /\ grid_seen = "timeout"
  /\ ready_checks = 1
  /\ ~ret /\ ui = << >>

\* the running create clicked an Add control
AddClicked == \E j \in 1..Len(ui) : ui[j].act = "click_add"

\* C21: in create, whether or not an Add control was found, an empty row
\* collection makes the call return failure with no Cell Editor invocation;
\* otherwise every field edit of the call targets the row that was last
\* when the rows were counted.
C21_CreateTargetsLastRow ==
  op \in {"create", "batch"} =>
    /\ nRows = 0 => (calls = << >> /\ (AddReturned => ~ret))
    /\ \A j \in 1..Len(calls) : calls[j].row = nRows /\ calls[j].row = row_locator
    /\ (AddReturned /\ grid_seen = "visible" /\ ~DriverFailed /\ ~AddClicked)
         => IF nRows = 0 THEN row_locator = None
            ELSE RowAcquired /\ CallFields = MappedInOrder

C21_Witness ==
  /\ op = "create" /\ pc = "done"
  /\ nRows = 2 /\ ~AddClicked
  /\ Len(calls) = 5
  /\ \A j \in 1..5 : calls[j].row = 2

C21_WitnessEmpty ==
  /\ op = "create" /\ pc = "done"
  /\ nRows = 0 /\ AddClicked /\ grid_seen = "visible" /\ ~DriverFailed
  /\ ~ret /\ calls = << >>

\* the running operation issued the UI action act at page level
Did(act) == \E j \in 1..Len(ui) : ui[j].act = act

\* C22: when the row reference resolves to nothing, edit and delete return
\* failure without selecting a row, invoking the Cell Editor or activating
\* a delete or confirmation control.
C22_NotFoundIsFatal ==
  ((EditReturned \/ DeleteReturned) /\ row_locator = None)
     => /\ ~ret /\ ~raised
        /\ ui = << >>
        /\ calls = << >> /\ cellUi = << >>
        /\ ~Did("click_row") /\ ~Did("click_delete") /\ ~Did("click_confirm")

C22_Witness ==
  /\ DeleteReturned
  /\ grid_seen = "visible" /\ nRows = 2 /\ row_identifier = 3 /\ row_text = ""
  /\ row_locator = None
  /\ ~ret /\ ui = << >>

\* the UI actions of the running operation, by kind, in the order issued
UiActs == [j \in 1..Len(ui) |-> ui[j].act]

\* the count() query named call was answered by the page
Probed(call) ==
  \E j \in 1..Len(waits) : waits[j].call = call /\ waits[j].out = "ok"

\* what the page showed for that query (the selectors that match, by rank)
Shown(call) ==
  UNION { waits[j].present : j \in { k \in 1..Len(waits) : waits[k].call = call } }

\* C23: delete with a resolved row selects the row, then activates the
\* first delete control found in selector priority order, then a
\* confirmation button only if one is present; without any delete control
\* the call fails and no delete or confirmation control is activated, and
\* a confirmation never comes before a delete control.
C23_DeleteOrder ==
  op = "delete" =>
    /\ UiActs \in { << >>, << "click_row" >>,
                    << "click_row", "click_delete" >>,
                    << "click_row", "click_delete", "click_confirm" >> }
    /\ \A j \in 1..Len(ui) :
         ui[j].act = "click_delete"
            => /\ ui[j].target \in Shown("count_delete")
               /\ \A q \in Shown("count_delete") : ui[j].target <= q
    /\ (pc = "done" /\ Probed("count_delete") /\ Shown("count_delete") = {})
          => (~ret /\ UiActs = << "click_row" >>)
    /\ Did("click_confirm") => Shown("count_confirm") # {}
    /\ (pc = "done" /\ Shown("count_confirm") # {}) => Did("click_confirm")
    /\ (pc = "done" /\ ret) => Did("click_delete")

C23_Witness ==
  /\ DeleteReturned /\ ret
  /\ UiActs = << "click_row", "click_delete", "click_confirm" >>
  /\ Shown("count_delete") = {2, 4}
  /\ ui[2].target = 2

\* C24: view issues no mutating UI action (click, double-click, fill, key
\* press) and, whatever the grid size, returns at most 10 preview rows of at
\* most 6 cells each and at most 6 headers; the preview has
\* min(row_count, 10) rows and row_count is the number of rendered rows.
C24_ViewBoundedPreview ==
  op = "view" =>
    /\ ui = << >> /\ cellUi = << >> /\ calls = << >>
    /\ (ViewReturned /\ view_result.success) =>
         /\ view_result.row_count = nRows
         /\ view_result.headers <= 6
         /\ Len(view_result.data) <= 10
         /\ Len(view_result.data) = (IF nRows <= 10 THEN nRows ELSE 10)
         /\ \A j \in 1..Len(view_result.data) : view_result.data[j].cells <= 6
         /\ view_result.kind = "preview"
               => view_result.preview_count = Len(view_result.data)

C24_Witness ==
  /\ ViewReturned /\ view_result.success
  /\ nRows = 11 /\ view_result.row_count = 11
  /\ Len(view_result.data) = 10
  /\ view_result.headers = 6
  /\ view_result.data[10] = [cells |-> 6, read |-> TRUE]

\* the outcome of the call named call of the running navigate / login
\* ("unasked" when it was not issued)
Outcome(call) ==
  LET S == { j \in 1..Len(waits) : waits[j].call = call } IN
  IF S = {} THEN "unasked" ELSE waits[CHOOSE j \in S : TRUE].out

\* wait_for_login has returned
LoginReturned == op = "login" /\ pc = "done"

\* with a password input on the page, true is returned only after the URL
\* matched, and false once the URL wait timed out
LoginGatedByUrl ==
  (LoginReturned /\ Outcome("count_password") = "some")
     => /\ ret => Outcome("wait_for_url") = "ok"
        /\ Outcome("wait_for_url") = "raise" => (~ret /\ ~raised)

\* C25: with a password input present wait_for_login does not return true
\* before the URL matched the post-login pattern, and when the URL never
\* matches within the login timeout the call ends and returns false.
C25_LoginWaitBounded ==
  /\ []LoginGatedByUrl
  /\ (op = "login" /\ pc = "login_url") ~> LoginReturned

C25_Witness ==
  /\ LoginReturned
  /\ Outcome("count_password") = "some"
  /\ Outcome("wait_for_url") = "raise"
  /\ ~ret

\* a value that is empty or made of whitespace only
Blank(v) == \A j \in 1..Len(v) : v[j] = " "

\* C26: every TestData that is constructed has a value that is neither
\* empty nor whitespace-only in all five fields and an upper-case
\* part_number; an empty or whitespace-only value for any of the five
\* fields is rejected.
C26_RecordFieldsPopulated ==
  /\ record_out.status = "built"
       => /\ \A f \in Fields : ~Blank(record_out.rec[f])
          /\ record_out.rec.part_number = upper(record_out.rec.part_number)
  /\ (record_out.status # "none" /\ \E f \in Fields : Blank(record_in[f]))
       => record_out.status = "rejected"

\* C27: a field edit whose commit did not register in the grid (after the
\* Enter key the cell does not hold the value written) is reported by the
\* Cell Editor as failed and is not counted among the succeeded fields.
C27_UnregisteredCommitFails ==
  (CellReturned /\ Issued("press_enter") /\ cellAns.press = "ignored")
     => ~cellRet

\* C28: a lookup by integer ordinal n returns a row only when
\* 1 <= n <= number of rendered rows; ordinal 0 and negative ordinals give
\* None and never some other row such as the last one.
C28_OrdinalInRangeOnly ==
  (op = "find" /\ pc = "done" /\ row_text = "")
     => /\ row_locator # None
             => (1 <= row_identifier /\ row_identifier <= nRows
                   /\ row_locator = row_identifier)
        /\ row_identifier <= 0 => row_locator = None

\* C29: a grid menu entry (search, save, grid operations) runs only after
\* navigate and wait_for_login both returned true for the current browser
\* session; when the last connection attempt failed at navigation or at
\* the login wait, the entries refuse to run.
C29_GridEntriesNeedConnection ==
  /\ menu.outcome = "ran" => connect = "ok"
  /\ (connect \in {"nav_failed", "login_failed"} /\ menu.outcome # "none")
        => menu.outcome = "refused"

\* C30: with a password input present and the URL matching the post-login
\* pattern within the login timeout, wait_for_login returns true whether
\* the network-quiescence wait that follows completes or times out.
C30_LoginTrueOnceUrlMatched ==
  (LoginReturned /\ Outcome("count_password") = "some"
     /\ Outcome("wait_for_url") = "ok")
  => ret

====
